---- MODULE Spec2Model ----
(***************************************************************************)
(* Model of api/todo/index.js: the HTTP handler of the Teams to-do sample  *)
(* and the in-memory TodoDatabase it dispatches to.                        *)
(*                                                                         *)
(* JavaScript values are modelled as records [t |-> type, v |-> payload]   *)
(* so that ===, != and truthiness can be computed as the language does.    *)
(***************************************************************************)
EXTENDS Integers, Sequences, FiniteSets, TLC

\* Bound of the model: the number of ids uuid.v4() hands out in one run.
MaxItems == 2
\* Bound of the model: the number of requests that arrive in one run with
\* overlapping requests.
MaxRequests == 3

----------------------------------------------------------------------------
\* JavaScript values

Str(s) == [t |-> "string", v |-> s]
Num(n) == [t |-> "number", v |-> ToString(n)]
Undefined == [t |-> "undefined", v |-> ""]
JSTrue == [t |-> "boolean", v |-> "true"]
JSFalse == [t |-> "boolean", v |-> "false"]
\* a one-element array literal [s] holding the string s
ArrayOf(s) == [t |-> "array", v |-> s]

\* ToBoolean: undefined, false, 0 and "" are falsy; arrays are always truthy
Truthy(x) ==
    CASE x.t = "undefined" -> FALSE
      [] x.t = "boolean" -> x.v = "true"
      [] x.t = "number" -> x.v # "0"
      [] x.t = "string" -> x.v # ""
      [] OTHER -> TRUE

\* a === b: same type and same value; two distinct array objects are never equal
StrictEq(a, b) == a.t # "array" /\ a = b

\* ToPrimitive: an array becomes the join of its elements
ToPrimitive(x) == IF x.t = "array" THEN Str(x.v) ELSE x

\* ToNumber of a primitive, as the text of the number ("NaN" when it is none)
ToNumber(x) ==
    CASE x.t = "number" -> x.v
      [] x.t = "boolean" -> (IF x.v = "true" THEN "1" ELSE "0")
      [] x.t = "string" -> (IF x.v = "" \/ x.v = "0" THEN "0"
                            ELSE IF x.v = "1" THEN "1" ELSE "NaN")
      [] OTHER -> "NaN"

\* a == b (abstract equality): operands of one type compare strictly, an array
\* is converted to a primitive, undefined equals only undefined/null, and
\* primitives of different types are compared as numbers
LooseEq(a, b) ==
    IF a.t = b.t THEN StrictEq(a, b)
    ELSE LET p == ToPrimitive(a)
             q == ToPrimitive(b)
         IN  IF p.t = q.t THEN p = q
             ELSE IF p.t = "undefined" \/ q.t = "undefined" THEN FALSE
             ELSE ToNumber(p) # "NaN" /\ ToNumber(p) = ToNumber(q)

----------------------------------------------------------------------------
\* TodoDatabase

columns == [id |-> "id", description |-> "description", objectId |-> "objectId",
            isCompleted |-> "isCompleted", channelOrChatId |-> "channelOrChatId"]

\* Faulty variant of uuidv4: the generator repeats an identifier.
uuidv4_repeats(n) == Str("id1")

\* the n-th identifier uuid.v4() returns: a string no earlier call returned
uuidv4(n) == Str("id" \o ToString(n))

\* Faulty variant of listBy: the scan stops at the first match.
listBy_firstOnly(d, column, value) ==
    LET result == SelectSeq(d, LAMBDA item : StrictEq(item[column], value))
    IN  IF result = <<>> THEN result ELSE <<result[1]>>

listBy(d, column, value) ==
    SelectSeq(d, LAMBDA item : StrictEq(item[column], value))

\* Faulty variant of setColumn: the id test is lost and every item is written.
setColumn_everyItem(d, id, column, value) ==
    [i \in DOMAIN d |-> [d[i] EXCEPT ![column] = value]]

setColumn(d, id, column, value) ==
    [i \in DOMAIN d |->
        IF StrictEq(d[i].id, id) THEN [d[i] EXCEPT ![column] = value] ELSE d[i]]

\* Faulty variant of insert: the row is put in front (unshift for push).
insert_unshift(d, newId, description, objectId, isCompleted, channelOrChatId) ==
    <<[id |-> newId,
       description |-> description,
       objectId |-> objectId,
       isCompleted |-> isCompleted,
       channelOrChatId |-> channelOrChatId]>> \o d

insert(d, newId, description, objectId, isCompleted, channelOrChatId) ==
    Append(d, [id |-> newId,
               description |-> description,
               objectId |-> objectId,
               isCompleted |-> isCompleted,
               channelOrChatId |-> channelOrChatId])

deleteBy(d, column, id) ==
    SelectSeq(d, LAMBDA item : ~LooseEq(item[column], id))

----------------------------------------------------------------------------
\* Identity resolution (TeamsFx.getUserInfo on the request's SSO token)

Tokens == {"tokenU1", "tokenU2", "expired"}

\* Faulty variant of getUserInfo: a rejected token resolves to an empty user.
getUserInfo_neverRejects(token) ==
    CASE token = "tokenU1" -> [ok |-> TRUE, objectId |-> Str("U1"), message |-> ""]
      [] token = "tokenU2" -> [ok |-> TRUE, objectId |-> Str("U2"), message |-> ""]
      [] OTHER -> [ok |-> TRUE, objectId |-> Undefined, message |-> ""]

\* the settled promise of getUserInfo(): the user info the token carries, or
\* the rejection with its message
getUserInfo(token) ==
    CASE token = "tokenU1" -> [ok |-> TRUE, objectId |-> Str("U1"), message |-> ""]
      [] token = "tokenU2" -> [ok |-> TRUE, objectId |-> Str("U2"), message |-> ""]
      [] OTHER -> [ok |-> FALSE, objectId |-> Undefined, message |-> "token expired"]

----------------------------------------------------------------------------
\* Request handler

\* String.prototype.toLowerCase on the method names the model sends
toLowerCase(s) ==
    CASE s \in {"GET", "Get", "get"} -> "get"
      [] s \in {"PUT", "put"} -> "put"
      [] s \in {"POST", "post"} -> "post"
      [] s \in {"DELETE", "Delete", "delete"} -> "delete"
      [] s \in {"PATCH", "patch"} -> "patch"
      [] s \in {"OPTIONS", "options"} -> "options"
      [] OTHER -> s

\* req.body: either absent (undefined) or an object; a field the object lacks
\* reads as undefined
NoBody == [present |-> FALSE, id |-> Undefined, description |-> Undefined,
           isCompleted |-> Undefined, channelOrChatId |-> Undefined,
           objectId |-> Undefined]
Body(id, description, isCompleted, channelOrChatId, objectId) ==
    [present |-> TRUE, id |-> id, description |-> description,
     isCompleted |-> isCompleted, channelOrChatId |-> channelOrChatId,
     objectId |-> objectId]

\* the value of `result` that becomes the response body
ArrayResult(items) == [kind |-> "array", items |-> items, error |-> ""]
UndefinedResult == [kind |-> "undefined", items |-> <<>>, error |-> ""]
EmptyStringResult == [kind |-> "string", items |-> <<>>, error |-> ""]
ErrorBody(message) == [kind |-> "error", items |-> <<>>, error |-> message]

\* message of the TypeError thrown by reading a property of an undefined body
TypeErrorMessage == "Cannot read properties of undefined"

\* Faulty variant of hasProperties: the body is read as with req.body?.x,
\* which yields undefined instead of throwing.
hasProperties_lenient(body) == TRUE

\* whether reading a property of req.body returns (an undefined body throws)
hasProperties(body) == body.present

\* Faulty variant of OneOrZero: the value is stored as it came.
OneOrZero_raw(x) == x

\* Faulty variant of OneOrZero: the branches of the conditional are swapped.
OneOrZero_inverted(x) == IF Truthy(x) THEN Num(0) ELSE Num(1)

\* x ? 1 : 0
OneOrZero(x) == IF Truthy(x) THEN Num(1) ELSE Num(0)

\* Faulty variant of getBranch: the channel filter is lost.
getBranch_ignoresChannel(d, query) == d

getBranch(d, query) == listBy(d, columns.channelOrChatId, query)

\* Faulty variant of putBranch: a body with both fields updates both.
putBranch_bothFields(d, body) ==
    IF Truthy(body.description)
    THEN IF body.isCompleted # Undefined
         THEN setColumn(setColumn(d, body.id, columns.description, body.description),
                        body.id, columns.isCompleted, OneOrZero(body.isCompleted))
         ELSE setColumn(d, body.id, columns.description, body.description)
    ELSE setColumn(d, body.id, columns.isCompleted, OneOrZero(body.isCompleted))

putBranch(d, body) ==
    IF Truthy(body.description)
    THEN setColumn(d, body.id, columns.description, body.description)
    ELSE setColumn(d, body.id, columns.isCompleted, OneOrZero(body.isCompleted))

\* Faulty variant of postBranch: an objectId in the body overrides the caller's.
postBranch_ownerFromBody(d, n, body, objectId) ==
    insert(d, uuidv4(n + 1), body.description,
           IF body.objectId # Undefined THEN body.objectId ELSE objectId,
           OneOrZero(body.isCompleted), body.channelOrChatId)

postBranch(d, n, body, objectId) ==
    insert(d, uuidv4(n + 1), body.description, objectId,
           OneOrZero(body.isCompleted), body.channelOrChatId)

\* Faulty variant of deleteBranch: delete-by-id removes only the caller's items.
deleteBranch_ownItemsOnly(d, body, objectId) ==
    IF body.present
    THEN SelectSeq(d, LAMBDA item : ~(/\ LooseEq(item.id, body.id)
                                       /\ LooseEq(item.objectId, objectId)))
    ELSE deleteBy(d, columns.objectId, objectId)

\* Faulty variant of deleteBranch: a DELETE without a body empties the store.
deleteBranch_clearsAll(d, body, objectId) ==
    IF body.present
    THEN deleteBy(d, columns.id, body.id)
    ELSE <<>>

deleteBranch(d, body, objectId) ==
    IF body.present
    THEN deleteBy(d, columns.id, body.id)
    ELSE deleteBy(d, columns.objectId, objectId)

\* return { status: 200, body: result }
Returned(d, n, result) == [data |-> d, uuids |-> n, status |-> 200, body |-> result]

\* Faulty variant of Caught: the catch block ends without a return, so the
\* invocation produces no response object.
Caught_noReturn(d, n, message) ==
    [data |-> d, uuids |-> n, status |-> 0, body |-> UndefinedResult]

\* catch (err): return { status: 500, body: { error: err.message } }
Caught(d, n, message) ==
    [data |-> d, uuids |-> n, status |-> 500, body |-> ErrorBody(message)]

\* Faulty variant of noBranch: the switch has a default case that throws.
noBranch_throws(d, n) == Caught(d, n, "Method not allowed")

\* the switch when no case matches the method: result keeps its initial ""
noBranch(d, n) == Returned(d, n, EmptyStringResult)

\* One run of module.exports on store d with n uuids handed out so far: the
\* store and uuid count it leaves and the response it returns.
handler(d, n, req) ==
    LET method == toLowerCase(req.method)
        currentUser == getUserInfo(req.token)
        objectId == currentUser.objectId
    IN  IF ~currentUser.ok THEN Caught(d, n, currentUser.message)
        ELSE CASE method = "get" ->
                    Returned(d, n, ArrayResult(getBranch(d, req.query)))
               [] method = "put" ->
                    IF ~hasProperties(req.body) THEN Caught(d, n, TypeErrorMessage)
                    ELSE Returned(putBranch(d, req.body), n, UndefinedResult)
               [] method = "post" ->
                    IF ~hasProperties(req.body) THEN Caught(d, n, TypeErrorMessage)
                    ELSE Returned(postBranch(d, n, req.body, objectId), n + 1,
                                  UndefinedResult)
               [] method = "delete" ->
                    Returned(deleteBranch(d, req.body, objectId), n, UndefinedResult)
               [] OTHER -> noBranch(d, n)

----------------------------------------------------------------------------
\* State

VARIABLES
    data,    \* database.data: the sequence of todo items
    uuids,   \* how many ids uuid.v4() has handed out
    issued,  \* history: for the k-th id, the caller and the channel of its POST
    served,  \* the request the handler has just returned from, with the store
             \* it found and the response it returned; Idle between requests
    stage,   \* history: how many steps of the walk-through POST, GET, PUT, GET,
             \* DELETE, GET the requests served since the start have followed
    pending, \* the invocations suspended at `await teamsfx.getUserInfo()`
    log      \* history: the invocations that returned, in the order in which
             \* they resumed, each with its response

vars == <<data, uuids, issued, served, stage, pending, log>>

Request(method, token, query, body) ==
    [method |-> method, token |-> token, query |-> query, body |-> body]

Idle == [req |-> Request("", "", Undefined, NoBody), before |-> <<>>,
         status |-> 0, body |-> EmptyStringResult]

Init ==
    /\ data = <<>>
    /\ uuids = 0
    /\ issued = <<>>
    /\ served = Idle
    /\ stage = 0
    /\ pending = {}
    /\ log = <<>>

\* Inputs
ValidTokens == {"tokenU1", "tokenU2"}
QueryValues == {Str("chat1"), Str("chat2"), Undefined}
PostChannels == {Str("chat1"), Undefined}
Flags == {JSTrue, JSFalse, Undefined}
IssuedIds == {uuidv4(k) : k \in 1..uuids}
\* ids a client can send: an id handed out so far or one never handed out
KnownIds == IssuedIds \cup {Str("id0")}
\* as KnownIds, and no id at all, and a handed-out id wrapped in an array
IdValues == KnownIds \cup {Undefined} \cup {ArrayOf(i.v) : i \in IssuedIds}
\* the description / isCompleted pairs a PUT body carries
PutFields ==
    {<<Str("walk dog"), Undefined>>, <<Str("walk dog"), JSTrue>>,
     <<Str(""), JSTrue>>, <<Undefined, JSTrue>>, <<Undefined, JSFalse>>,
     <<Undefined, Undefined>>}
PutBodies ==
    {Body(i, f[1], f[2], Undefined, Undefined) : i \in KnownIds, f \in PutFields}
\* POST bodies: the documented fields, and one that also claims an owner
PostBodies ==
    {Body(Undefined, Str("buy milk"), c, ch, Undefined) :
        c \in Flags, ch \in PostChannels}
    \cup {Body(Undefined, Str("buy milk"), JSFalse, Str("chat1"), Str("U2")),
          Body(Undefined, Str("buy milk"), JSTrue, Undefined, Str("U1"))}
DeleteBodies ==
    {Body(i, Undefined, Undefined, Undefined, Undefined) : i \in IdValues}

\* The walk-through on the initially empty store: U1 posts "buy milk", open,
\* to chat1; chat1 is listed; the item is completed by a PUT; chat1 is listed;
\* the item is deleted by id; chat1 is listed.  WalkThrough(k, d, n) is the
\* set of requests that are step k on store d with n ids handed out.
ListChat1 ==
    {Request(m, t, Str("chat1"), NoBody) : m \in {"GET", "get"}, t \in ValidTokens}
WalkThrough(k, d, n) ==
    CASE k = 1 ->
            IF n = 0
            THEN {Request("POST", "tokenU1", Undefined,
                          Body(Undefined, Str("buy milk"), JSFalse, Str("chat1"),
                               Undefined))}
            ELSE {}
      [] k \in {2, 4, 6} -> ListChat1
      [] k = 3 ->
            {Request("PUT", t, Undefined,
                     Body(d[i].id, Undefined, JSTrue, Undefined, Undefined)) :
                t \in ValidTokens, i \in DOMAIN d}
      [] k = 5 ->
            {Request("DELETE", t, Undefined,
                     Body(d[i].id, Undefined, Undefined, Undefined, Undefined)) :
                t \in ValidTokens, i \in DOMAIN d}
      [] OTHER -> {}

\* The host invokes module.exports on req and the handler runs to its return.
Serve(req) ==
    /\ served = Idle
    /\ \E out \in {handler(data, uuids, req)} :
        /\ data' = out.data
        /\ uuids' = out.uuids
        /\ issued' = IF out.uuids > uuids
                     THEN Append(issued,
                                 [caller |-> getUserInfo(req.token).objectId,
                                  channelOrChatId |-> req.body.channelOrChatId])
                     ELSE issued
        /\ served' = [req |-> req, before |-> data, status |-> out.status,
                      body |-> out.body]
        /\ stage' = IF req \in WalkThrough(stage + 1, data, uuids)
                    THEN stage + 1 ELSE 0
        /\ UNCHANGED <<pending, log>>

Get ==
    \E m \in {"GET", "get"}, t \in ValidTokens, q \in QueryValues :
        Serve(Request(m, t, q, NoBody))

Put ==
    \E t \in ValidTokens, b \in PutBodies \cup {NoBody} :
        Serve(Request("PUT", t, Undefined, b))

Post ==
    /\ uuids < MaxItems
    /\ \E t \in ValidTokens, b \in PostBodies \cup {NoBody} :
        Serve(Request("POST", t, Undefined, b))

Delete ==
    \E t \in ValidTokens, b \in DeleteBodies \cup {NoBody} :
        Serve(Request("DELETE", t, Undefined, b))

Other ==
    \E m \in {"PATCH", "options"}, t \in ValidTokens :
        Serve(Request(m, t, Undefined, NoBody))

\* A request whose SSO token getUserInfo() rejects.
Unauthenticated ==
    \E m \in {"GET", "PUT", "POST", "DELETE", "PATCH"},
       b \in {NoBody, Body(Str("id1"), Str("walk dog"), JSTrue, Str("chat1"), Undefined)} :
        Serve(Request(m, "expired", Str("chat1"), b))

\* The host sends the returned response to the client.
Respond ==
    /\ served # Idle
    /\ served' = Idle
    /\ UNCHANGED <<data, uuids, issued, stage, pending, log>>

Next == Get \/ Put \/ Post \/ Delete \/ Other \/ Unauthenticated \/ Respond

Spec == Init /\ [][Next]_vars

----------------------------------------------------------------------------
\* Overlapping invocations: the host starts an invocation whenever a request
\* arrives; each runs up to `await teamsfx.getUserInfo()` and is resumed, one
\* at a time, when its promise settles.

\* the requests that arrive while others are in flight
OverlappingRequests ==
    {Request("POST", "tokenU1", Undefined,
             Body(Undefined, Str("buy milk"), JSFalse, Str("chat1"), Undefined)),
     Request("POST", "tokenU2", Undefined,
             Body(Undefined, Str("buy milk"), JSTrue, Str("chat1"), Undefined)),
     Request("POST", "expired", Undefined,
             Body(Undefined, Str("buy milk"), JSTrue, Str("chat1"), Undefined)),
     Request("GET", "tokenU1", Str("chat1"), NoBody),
     Request("DELETE", "tokenU1", Undefined, NoBody)}
    \cup (IF uuids = 0 THEN {}
          ELSE {Request("PUT", "tokenU2", Undefined,
                        Body(uuidv4(1), Undefined, JSTrue, Undefined, Undefined)),
                Request("DELETE", "tokenU2", Undefined,
                        Body(uuidv4(1), Undefined, Undefined, Undefined, Undefined))})

\* how many requests have arrived
Arrived == Len(log) + Cardinality(pending)

\* Faulty variant of storeAfterAwait: the invocation works on the rows it saw
\* before the await.
storeAfterAwait_stale(seen, current) == seen

\* the rows a resumed invocation works on: database.data is read inside the
\* database methods, which are all called after the await
storeAfterAwait(seen, current) == current

\* A request arrives: its invocation runs to the await and is suspended.
Arrive ==
    /\ Arrived < MaxRequests
    /\ \E req \in OverlappingRequests :
        pending' = pending \cup {[n |-> Arrived + 1, req |-> req, seen |-> data]}
    /\ UNCHANGED <<data, uuids, issued, served, stage, log>>

\* The promise of invocation k settles: the invocation resumes and runs to
\* its return without being suspended again.
Settle(k) ==
    \E p \in pending :
        /\ p.n = k
        /\ \E out \in {handler(storeAfterAwait(p.seen, data), uuids, p.req)} :
            /\ data' = out.data
            /\ uuids' = out.uuids
            /\ log' = Append(log, [n |-> k, req |-> p.req, status |-> out.status,
                                   body |-> out.body,
                                   overlapped |-> pending # {p}])
        /\ pending' = pending \ {p}
        /\ UNCHANGED <<issued, served, stage>>

Resume == \E k \in 1..MaxRequests : Settle(k)

NextAsync == Arrive \/ Resume

SpecAsync == Init /\ [][NextAsync]_vars

\* every promise of getUserInfo() settles
SpecAsyncFair == SpecAsync /\ \A k \in 1..MaxRequests : WF_vars(Settle(k))

----------------------------------------------------------------------------
\* Vocabulary of the properties

\* the handler has returned from a request (and the response is not yet sent)
Acted == served # Idle
Method == toLowerCase(served.req.method)
Authenticated == served.req.token \in ValidTokens
\* the resolved identity of the caller of the served request
Caller == getUserInfo(served.req.token).objectId
Ids(seq) == {seq[i].id : i \in DOMAIN seq}
Has(seq, item) == \E j \in DOMAIN seq : seq[j] = item
\* the request succeeded
Succeeded(m) == Acted /\ Method = m /\ served.status = 200
\* the item a successful POST has just appended
NewItem == data[Len(data)]

----------------------------------------------------------------------------
\* C1: in every reachable state no two items of the store have the same id,
\* and the id a POST gives its item is the id of no item already stored.
C1_UniqueIds ==
    /\ \A i, j \in DOMAIN data : i # j => data[i].id # data[j].id
    /\ Succeeded("post") => NewItem.id \notin Ids(served.before)

\* a second item has just been inserted next to a first one
C1_Witness ==
    Succeeded("post") /\ Len(served.before) = 1 /\ Len(data) = 2

\* C2: every stored item's objectId is the resolved identity of the caller
\* whose POST created it, whatever the POST body said and whatever requests
\* were served since.
C2_OwnerIsCreator ==
    \A i \in DOMAIN data :
        \E k \in 1..uuids :
            /\ data[i].id = uuidv4(k)
            /\ data[i].objectId = issued[k].caller

\* U1 has just posted a body that names U2 as owner; the item belongs to U1
C2_Witness ==
    /\ Succeeded("post")
    /\ served.req.body.objectId = Str("U2")
    /\ Caller = Str("U1")
    /\ NewItem.objectId = Str("U1")

\* C3: a GET for channel q returns every stored item that was posted with
\* channelOrChatId = q and no stored item that was posted with another
\* channelOrChatId.
C3_ListedByItsChannel ==
    Succeeded("get") =>
        \A i \in DOMAIN data : \A k \in 1..uuids :
            (data[i].id = uuidv4(k) /\ issued[k].channelOrChatId # Undefined) =>
                IF issued[k].channelOrChatId = served.req.query
                THEN Has(served.body.items, data[i])
                ELSE data[i].id \notin Ids(served.body.items)

\* a GET for chat1 has returned the chat1 item of a store that holds another
C3_Witness ==
    /\ Succeeded("get")
    /\ served.req.query = Str("chat1")
    /\ Len(data) = 2
    /\ Len(served.body.items) = 1
    /\ \E k \in 1..uuids : /\ issued[k].channelOrChatId = Str("chat1")
                           /\ served.body.items[1].id = uuidv4(k)

C5_DeleteByIdExact ==
    (Succeeded("delete") /\ served.req.body.present) =>
        /\ data = SelectSeq(served.before,
                            LAMBDA item : item.id # served.req.body.id)
        /\ \A t \in ValidTokens, q \in QueryValues :
             served.req.body.id \notin
                Ids(handler(data, uuids, Request("GET", t, q, NoBody)).body.items)

\* C6: a DELETE without a body by caller u removes all and only the items
\* whose objectId is u, whatever their channel; the other items stay as they
\* were, in order.
C6_BulkDeleteOwnItems ==
    (Succeeded("delete") /\ ~served.req.body.present) =>
        data = SelectSeq(served.before, LAMBDA item : item.objectId # Caller)

\* a bulk DELETE has removed the caller's item and kept another user's item
C6_Witness ==
    /\ Succeeded("delete")
    /\ ~served.req.body.present
    /\ Len(served.before) = 2
    /\ Len(data) = 1
    /\ data[1].objectId # Caller

\* C7: a PUT or a DELETE with a body whose id is the id of no stored item
\* leaves the store as it was and returns status 200.  (Stated as claimed; the
\* code violates it.)
C7_MissingIdIsNoOp ==
    ( /\ Acted
      /\ Authenticated
      /\ Method \in {"put", "delete"}
      /\ served.req.body.present
      /\ served.req.body.id \notin Ids(served.before) ) =>
        /\ data = served.before
        /\ served.status = 200

\* C8: a PUT updates exactly one field of the item it names: description alone
\* when the body's description is truthy (even if isCompleted is supplied too),
\* otherwise isCompleted alone, set to 1 for a truthy isCompleted and 0 for any
\* other.
C8_ExactlyOneField ==
    Succeeded("put") =>
        /\ Len(data) = Len(served.before)
        /\ \A i \in DOMAIN data :
            IF served.before[i].id # served.req.body.id
            THEN data[i] = served.before[i]
            ELSE IF served.req.body.description \notin {Undefined, Str("")}
            THEN data[i] = [served.before[i] EXCEPT
                              !.description = served.req.body.description]
            ELSE data[i] = [served.before[i] EXCEPT
                              !.isCompleted = IF served.req.body.isCompleted = JSTrue
                                              THEN Num(1) ELSE Num(0)]

\* a PUT carrying a description and isCompleted: true has rewritten the
\* description of an open item, which is still open
C8_Witness ==
    /\ Succeeded("put")
    /\ served.req.body.description = Str("walk dog")
    /\ served.req.body.isCompleted = JSTrue
    /\ \E i \in DOMAIN data :
        /\ data[i].id = served.req.body.id
        /\ served.before[i].description = Str("buy milk")
        /\ data[i].description = Str("walk dog")
        /\ data[i].isCompleted = Num(0)

\* C9: when identity resolution fails the request returns status 500 with
\* body {error: <the failure's message>} and the store is as it was, whatever
\* the method.
C9_IdentityFailure ==
    (Acted /\ ~Authenticated) =>
        /\ served.status = 500
        /\ served.body = ErrorBody("token expired")
        /\ data = served.before

\* a DELETE naming a stored item was refused for its token; the item is kept
C9_Witness ==
    /\ Acted
    /\ ~Authenticated
    /\ Method = "delete"
    /\ served.req.body.id \in Ids(served.before)
    /\ served.status = 500
    /\ data = served.before

\* C10: a request returns 200 with its store operation applied in full, or 500
\* with the store as it was; a PUT or POST without a body returns 500.
C10_AllOrNothing ==
    Acted =>
        /\ served.status \in {200, 500}
        /\ served.status = 500 => data = served.before
        /\ (Method \in {"put", "post"} /\ ~served.req.body.present) =>
              served.status = 500
        /\ served.status = 200 =>
            CASE Method = "post" ->
                    /\ Len(data) = Len(served.before) + 1
                    /\ SubSeq(data, 1, Len(served.before)) = served.before
                    /\ NewItem.description = served.req.body.description
                    /\ NewItem.channelOrChatId = served.req.body.channelOrChatId
                    /\ NewItem.objectId = Caller
              [] Method = "put" ->
                    \A i \in DOMAIN data :
                        data[i].id = served.req.body.id =>
                            \/ data[i].description = served.req.body.description
                            \/ /\ served.req.body.description \in {Undefined, Str("")}
                               /\ data[i].isCompleted \in {Num(0), Num(1)}
                               /\ data[i].isCompleted = Num(1)
                                    <=> served.req.body.isCompleted = JSTrue
              [] Method = "delete" ->
                    IF served.req.body.present
                    THEN served.req.body.id \notin Ids(data)
                    ELSE \A i \in DOMAIN data : data[i].objectId # Caller
              [] OTHER -> data = served.before

\* a POST without a body has failed with 500 on a store that holds an item
C10_Witness ==
    /\ Acted
    /\ Authenticated
    /\ Method = "post"
    /\ ~served.req.body.present
    /\ served.status = 500
    /\ Len(data) = 1
    /\ data = served.before

\* C11: a request by an authenticated caller whose method is none of GET,
\* PUT, POST, DELETE in any letter case leaves the store as it was and returns
\* status 200 with the empty string as result.
C11_UnroutedMethod ==
    ( /\ Acted
      /\ Authenticated
      /\ served.req.method \notin {"GET", "get", "PUT", "put", "POST", "post",
                                   "DELETE", "delete"} ) =>
        /\ data = served.before
        /\ served.status = 200
        /\ served.body = [kind |-> "string", items |-> <<>>, error |-> ""]

\* a PATCH has been answered with 200 on a store that holds items
C11_Witness ==
    /\ Acted
    /\ Authenticated
    /\ served.req.method = "PATCH"
    /\ served.status = 200
    /\ Len(data) = 2
    /\ data = served.before

\* C12: a GET by an authenticated caller that omits channelOrChatId returns
\* status 200 and no item, whatever requests were served before.  (Stated as
\* claimed; the code violates it.)
C12_OmittedChannelListsNothing ==
    (Acted /\ Authenticated /\ Method = "get" /\ served.req.query = Undefined) =>
        /\ served.status = 200
        /\ served.body.items = <<>>

\* C13: the walk-through on the initially empty store: after the POST of
\* "buy milk" (open, chat1) by U1, GET chat1 returns one item, "buy milk" with
\* isCompleted 0; after the PUT {id, isCompleted: true}, GET chat1 returns it
\* with isCompleted 1 and the same description; after the DELETE {id}, GET
\* chat1 returns the empty list; every step returns 200.
C13_WalkThrough ==
    (Acted /\ stage >= 1) =>
        /\ served.status = 200
        /\ stage = 2 =>
            /\ Len(served.body.items) = 1
            /\ served.body.items[1].description = Str("buy milk")
            /\ served.body.items[1].isCompleted = Num(0)
        /\ stage = 4 =>
            /\ Len(served.body.items) = 1
            /\ served.body.items[1].description = Str("buy milk")
            /\ served.body.items[1].isCompleted = Num(1)
        /\ stage = 6 =>
            /\ served.body.kind = "array"
            /\ served.body.items = <<>>

\* the last GET of the walk-through has been answered
C13_Witness ==
    /\ Acted
    /\ stage = 6
    /\ Method = "get"
    /\ served.status = 200

\* the position of an id in the order in which uuid.v4() handed ids out
IssueNo(id) == CHOOSE k \in 1..uuids : uuidv4(k) = id

\* C14: a GET for channel c by an authenticated caller returns status 200 and
\* exactly the stored items whose channelOrChatId is c, each once, in the
\* order of their insertion, and leaves the store as it was.
C14_ListIsTheChannel ==
    (Acted /\ Authenticated /\ Method = "get") =>
        /\ served.status = 200
        /\ served.body.kind = "array"
        /\ served.body.items =
              SelectSeq(served.before,
                        LAMBDA item : item.channelOrChatId = served.req.query)
        /\ \A i, j \in DOMAIN served.body.items :
              i < j => IssueNo(served.body.items[i].id)
                          < IssueNo(served.body.items[j].id)
        /\ data = served.before

\* a GET has returned two items, in the order of their insertion
C14_Witness ==
    /\ Succeeded("get")
    /\ Len(served.body.items) = 2
    /\ served.body.items[1].id = uuidv4(1)
    /\ served.body.items[2].id = uuidv4(2)

\* C15: every stored item's isCompleted is the number 0 or 1; a POST stores 1
\* for a truthy isCompleted and 0 for any other, a missing one included, and
\* so does a PUT that updates isCompleted.
C15_CompletedIsZeroOrOne ==
    /\ \A i \in DOMAIN data : data[i].isCompleted \in {Num(0), Num(1)}
    /\ Succeeded("post") =>
          NewItem.isCompleted =
              IF served.req.body.isCompleted = JSTrue THEN Num(1) ELSE Num(0)
    /\ (Succeeded("put") /\ served.req.body.description \in {Undefined, Str("")}) =>
          \A i \in DOMAIN data :
              data[i].id = served.req.body.id =>
                  data[i].isCompleted =
                      IF served.req.body.isCompleted = JSTrue THEN Num(1) ELSE Num(0)

\* a POST without isCompleted has stored 0 behind a completed item
C15_Witness ==
    /\ Succeeded("post")
    /\ served.req.body.isCompleted = Undefined
    /\ NewItem.isCompleted = Num(0)
    /\ Len(data) = 2
    /\ data[1].isCompleted = Num(1)

\* C16: a successful POST appends exactly one item and leaves the items
\* stored before it as they were and in order; no other request adds an item,
\* and no two stored items are the same.
C16_PostAppendsOne ==
    /\ Succeeded("post") =>
        /\ Len(data) = Len(served.before) + 1
        /\ SubSeq(data, 1, Len(served.before)) = served.before
        /\ NewItem \notin {served.before[i] : i \in DOMAIN served.before}
    /\ (Acted /\ ~Succeeded("post")) =>
        /\ Len(data) <= Len(served.before)
        /\ Ids(data) \subseteq Ids(served.before)
    /\ \A i, j \in DOMAIN data : i # j => data[i] # data[j]

\* U2 has posted an item behind the item of U1, which is as it was
C16_Witness ==
    /\ Succeeded("post")
    /\ Len(served.before) = 1
    /\ data[1] = served.before[1]
    /\ data[1].objectId = Str("U1")
    /\ data[2].objectId = Str("U2")

\* C19: what a PUT or a DELETE with a body does is the same for every
\* authenticated caller: served for another resolved identity on the same
\* store, the same request leaves the same store and returns the same
\* response; so a caller can update or delete an item of another owner.
C19_CallerIndependent ==
    ( /\ Acted
      /\ Authenticated
      /\ Method \in {"put", "delete"}
      /\ served.req.body.present ) =>
        \A t \in ValidTokens :
            LET other == handler(served.before, uuids,
                                 [served.req EXCEPT !.token = t])
            IN  /\ other.data = data
                /\ other.status = served.status
                /\ other.body = served.body

\* U1 has deleted by id the item of U2
C19_Witness ==
    /\ Succeeded("delete")
    /\ served.req.body.present
    /\ Caller = Str("U1")
    /\ \E i \in DOMAIN served.before :
        /\ served.before[i].id = served.req.body.id
        /\ served.before[i].objectId = Str("U2")
    /\ served.req.body.id \notin Ids(data)

\* the store and the id counter after the requests of l have been handled
\* one at a time, in the order of l, starting from rows d and counter n
RECURSIVE Replay(_, _, _)
Replay(l, d, n) ==
    IF l = <<>>
    THEN [data |-> d, uuids |-> n]
    ELSE LET out == handler(d, n, Head(l).req)
         IN  Replay(Tail(l), out.data, out.uuids)

\* the positions of the log at which a POST was answered with 200
Inserted == {i \in DOMAIN log : /\ toLowerCase(log[i].req.method) = "post"
                                /\ log[i].status = 200}

\* the positions of the log at which a DELETE was handled
Deleted == {i \in DOMAIN log : toLowerCase(log[i].req.method) = "delete"}

\* C17: under every interleaving of overlapping requests the store is the
\* result of handling the requests one at a time in the order in which their
\* identity resolutions completed; an invocation is suspended only at the
\* identity resolution; and as long as nothing was deleted every POST answered
\* with 200 has left its item in the store (no lost insert).
C17_OneAtATime ==
    /\ data = Replay(log, <<>>, 0).data
    /\ uuids = Replay(log, <<>>, 0).uuids
    /\ \A p \in pending : p.n \notin {log[i].n : i \in DOMAIN log}
    /\ Deleted = {} => Len(data) = Cardinality(Inserted)

\* two POSTs were in flight together, the later one resumed first, and both
\* items are in the store
C17_Witness ==
    /\ pending = {}
    /\ Len(log) = 2
    /\ Inserted = {1, 2}
    /\ log[1].overlapped
    /\ log[1].n = 2
    /\ log[2].n = 1
    /\ Len(data) = 2
    /\ data[1].id # data[2].id

\* request k is suspended at the identity resolution
Suspended(k) == \E p \in pending : p.n = k

\* the positions of the log at which request k was answered
Responses(k) == {i \in DOMAIN log : log[i].n = k}

\* C18: provided every identity resolution settles, every request that was
\* dispatched is eventually answered; it is answered at most once, with
\* status 200 or 500, and is not suspended again once answered.
C18_ExactlyOneResponse ==
    /\ \A k \in 1..MaxRequests : Suspended(k) ~> (Cardinality(Responses(k)) = 1)
    /\ [](\A k \in 1..MaxRequests :
            /\ Cardinality(Responses(k)) <= 1
            /\ Suspended(k) => Responses(k) = {}
            /\ k <= Arrived => (Suspended(k) \/ Responses(k) # {}))
    /\ [](\A i \in DOMAIN log : log[i].status \in {200, 500})

\* every request of the run has been answered, one with 200 after a
\* resolved identity and one with 500 after a failed one
C18_Witness ==
    /\ pending = {}
    /\ Len(log) = MaxRequests
    /\ \E i, j \in DOMAIN log :
        /\ log[i].status = 200
        /\ log[j].status = 500
        /\ log[j].req.token = "expired"
        /\ log[j].overlapped

====
